---------------------------- MODULE Spec2Model ----------------------------
(***************************************************************************)
(* Kelly-fraction solvers of kelly/kelly.py: expectation, dgsingle,        *)
(* dgidouble, single_iter.f, idouble_iter.f, kfsingle and kfidouble.       *)
(*                                                                         *)
(* Numbers.  The program computes with Python floats, which are IEEE-754   *)
(* doubles.  A float is modelled as the record [s, m, e] of a sign s in    *)
(* {-1, 0, 1}, a significand m of exactly 53 bits and an exponent e, with  *)
(* value s * m * 2^e; zero is [0, <<>>, 0].  Every arithmetic operation    *)
(* returns the exact result rounded to the nearest such number, ties to    *)
(* the even significand, as the hardware does.  The exponent is not        *)
(* bounded: overflow to infinity and gradual underflow are not modelled.   *)
(* A float with s = 2 stands for a raised ZeroDivisionError.               *)
(* Significands are naturals written as little-endian digit sequences in   *)
(* base 2^15, so that no product of two digits exceeds 32 bits.            *)
(*                                                                         *)
(* Properties are stated over exact rationals [s, n, d] (sign, numerator   *)
(* and denominator as naturals); QOf gives the exact value of a float.     *)
(***************************************************************************)
EXTENDS Integers, Sequences, FiniteSets, TLC

-----------------------------------------------------------------------------
(* Naturals as digit sequences, least significant digit first, no leading  *)
(* zero digit; zero is the empty sequence.                                 *)

Base == 128 * 256

RECURSIVE NStrip(_)
NStrip(a) ==
    IF a = <<>> THEN <<>>
    ELSE IF a[Len(a)] = 0 THEN NStrip(SubSeq(a, 1, Len(a) - 1)) ELSE a

RECURSIVE NFromInt(_)
NFromInt(k) == IF k = 0 THEN <<>> ELSE <<k % Base>> \o NFromInt(k \div Base)

RECURSIVE NCmpAt(_, _, _)
NCmpAt(a, b, i) ==
    IF i = 0 THEN 0
    ELSE IF a[i] < b[i] THEN -1
    ELSE IF a[i] > b[i] THEN 1
    ELSE NCmpAt(a, b, i - 1)

NCmp(a, b) ==
    IF Len(a) < Len(b) THEN -1
    ELSE IF Len(a) > Len(b) THEN 1
    ELSE NCmpAt(a, b, Len(a))

Dig(a, i) == IF i <= Len(a) THEN a[i] ELSE 0

RECURSIVE NAddAt(_, _, _, _)
NAddAt(a, b, i, c) ==
    IF i > Len(a) /\ i > Len(b)
    THEN IF c = 0 THEN <<>> ELSE <<c>>
    ELSE LET t == Dig(a, i) + Dig(b, i) + c
         IN  <<t % Base>> \o NAddAt(a, b, i + 1, t \div Base)

NAdd(a, b) == NAddAt(a, b, 1, 0)

RECURSIVE NSubAt(_, _, _, _)
NSubAt(a, b, i, c) ==
    IF i > Len(a) THEN <<>>
    ELSE LET t == a[i] - Dig(b, i) - c
         IN  IF t < 0 THEN <<t + Base>> \o NSubAt(a, b, i + 1, 1)
                      ELSE <<t>> \o NSubAt(a, b, i + 1, 0)

\* a - b for a >= b
NSub(a, b) == NStrip(NSubAt(a, b, 1, 0))

RECURSIVE NMulSmallAt(_, _, _, _)
NMulSmallAt(a, k, i, c) ==
    IF i > Len(a)
    THEN IF c = 0 THEN <<>> ELSE <<c>>
    ELSE LET t == a[i] * k + c
         IN  <<t % Base>> \o NMulSmallAt(a, k, i + 1, t \div Base)

\* a * k for one digit k
NMulSmall(a, k) == IF k = 0 \/ a = <<>> THEN <<>> ELSE NMulSmallAt(a, k, 1, 0)

NShift(a) == IF a = <<>> THEN <<>> ELSE <<0>> \o a

RECURSIVE NMulRec(_, _)
NMulRec(a, b) ==
    IF a = <<>> THEN <<>>
    ELSE NAdd(NMulSmall(b, a[1]), NShift(NMulRec(Tail(a), b)))

NMul(a, b) ==
    IF a = <<>> \/ b = <<>> THEN <<>>
    ELSE IF a = <<1>> THEN b
    ELSE IF b = <<1>> THEN a
    ELSE IF Len(a) <= Len(b) THEN NMulRec(a, b) ELSE NMulRec(b, a)

\* a div k and a mod k for one nonzero digit k: <<quotient, remainder digit>>
RECURSIVE NDivSmallAt(_, _, _, _, _)
NDivSmallAt(a, k, i, q, r) ==
    IF i = 0 THEN <<NStrip(q), r>>
    ELSE LET t  == r * Base + a[i]
             q2 == <<t \div k>> \o q
         IN  \* the test only fixes the order of evaluation
             IF Len(q2) > 0 THEN NDivSmallAt(a, k, i - 1, q2, t % k) ELSE <<>>

NDivSmall(a, k) == NDivSmallAt(a, k, Len(a), <<>>, 0)

\* the largest digit q <= q0 with b * q <= r
RECURSIVE QuotFix(_, _, _)
QuotFix(r, b, q0) ==
    IF NCmp(NMulSmall(b, q0), r) <= 0 THEN q0 ELSE QuotFix(r, b, q0 - 1)

\* the digit r div b, for r < b * Base and the top digit of b at least Base / 2:
\* estimated from the leading digits, then corrected
QuotDigit(r, b) ==
    IF NCmp(r, b) < 0 THEN 0
    ELSE LET n  == Len(b)
             q0 == (Dig(r, n + 1) * Base + r[n]) \div b[n]
         IN  QuotFix(r, b, IF q0 > Base - 1 THEN Base - 1 ELSE q0)

RECURSIVE NDivModAt(_, _, _, _, _)

\* the digit dg of the quotient is known: on to the next digit
NDivModDigit(a, b, i, q, r1, dg) ==
    IF dg >= 0
    THEN NDivModAt(a, b, i - 1, <<dg>> \o q, NSub(r1, NMulSmall(b, dg)))
    ELSE <<>>

NDivModRem(a, b, i, q, r1) == NDivModDigit(a, b, i, q, r1, QuotDigit(r1, b))

\* schoolbook long division, from digit i of a downwards; the test on the
\* lengths only fixes the order of evaluation
NDivModAt(a, b, i, q, r) ==
    IF i = 0 THEN <<NStrip(q), r>>
    ELSE IF Len(r) + Len(q) >= 0
    THEN NDivModRem(a, b, i, q, NStrip(<<a[i]>> \o r))
    ELSE <<>>

NDivSmallPair(qr) == <<qr[1], NFromInt(qr[2])>>

NDivUnscale(qr, f) == <<qr[1], NDivSmall(qr[2], f)[1]>>

NDivLong(af, bf, f) == NDivUnscale(NDivModAt(af, bf, Len(af), <<>>, <<>>), f)

\* <<a div b, a mod b>> for b # 0; a and b are first scaled by f so that the
\* leading digit of b is at least Base / 2
NDivMod(a, b) ==
    IF NCmp(a, b) < 0 THEN <<<<>>, a>>
    ELSE IF Len(b) = 1 THEN NDivSmallPair(NDivSmall(a, b[1]))
    ELSE NDivLong(NMulSmall(a, Base \div (b[Len(b)] + 1)),
                  NMulSmall(b, Base \div (b[Len(b)] + 1)),
                  Base \div (b[Len(b)] + 1))

\* sign and magnitude of sa * na + sb * nb: <<s, n>>
NSignedSum(sa, na, sb, nb) ==
    IF sa = 0 THEN <<sb, nb>>
    ELSE IF sb = 0 THEN <<sa, na>>
    ELSE IF sa = sb THEN <<sa, NAdd(na, nb)>>
    ELSE IF NCmp(na, nb) = 0 THEN <<0, <<>>>>
    ELSE IF NCmp(na, nb) > 0 THEN <<sa, NSub(na, nb)>>
    ELSE <<sb, NSub(nb, na)>>

\* 2^i for i in 0..15, at index i + 1
Pow2Tab == <<1, 2, 4, 8, 16, 32, 64, 128, 256, 512, 1024, 2048, 4096, 8192,
             16384, 32768>>

\* the number of bits of a nonzero digit
BitLen(t) == CHOOSE b \in 1..15 : Pow2Tab[b] <= t /\ t < Pow2Tab[b + 1]

\* the number of bits of a
NBits(a) == IF a = <<>> THEN 0 ELSE 15 * (Len(a) - 1) + BitLen(a[Len(a)])

Zeros(k) == [i \in 1..k |-> 0]

\* a * 2^b
NShl(a, b) ==
    IF a = <<>> THEN <<>>
    ELSE NMulSmall(Zeros(b \div 15) \o a, Pow2Tab[(b % 15) + 1])

\* a with its k lowest digits dropped: <<the rest, 1 if a nonzero digit was
\* dropped else 0>>
NShrLimbs(a, k) ==
    IF k >= Len(a) THEN <<<<>>, IF a = <<>> THEN 0 ELSE 1>>
    ELSE <<SubSeq(a, k + 1, Len(a)), IF \E i \in 1..k : a[i] # 0 THEN 1 ELSE 0>>

NShrJoin(qr, st) == <<qr[1], IF qr[2] # 0 \/ st = 1 THEN 1 ELSE 0>>

NShrBits(rs, k) == NShrJoin(NDivSmall(rs[1], Pow2Tab[k + 1]), rs[2])

\* <<a div 2^b, 1 if a mod 2^b # 0 else 0>>
NShr(a, b) == NShrBits(NShrLimbs(a, b \div 15), b % 15)

RECURSIVE NPow10(_)
NPow10(k) == IF k = 0 THEN <<1>> ELSE NMulSmall(NPow10(k - 1), 10)

-----------------------------------------------------------------------------
(* Floats [s, m, e].                                                       *)

MantBits == 3 * 15 + 8      \* the 53 bits of a double's significand

\* the significand 2^52 of a power of two
Mant1 == <<0, 0, 0, 128>>

FZero == [s |-> 0, m |-> <<>>, e |-> 0]
FErr == [s |-> 2, m |-> <<>>, e |-> 0]
IsErr(a) == a.s = 2

\* m has come out of a rounding with 53 bits, or is 2^53
FNorm(s, m, e) ==
    IF m[4] >= 256 THEN [s |-> s, m |-> Mant1, e |-> e + 1]
    ELSE [s |-> s, m |-> m, e |-> e]

\* qr = <<the 53 leading bits, the bit after them>>; st = 1 if a lower bit
\* is set: round to nearest, ties to even
FRoundUp(s, qr, st, e) ==
    IF qr[2] = 1 /\ (st = 1 \/ qr[1][1] % 2 = 1)
    THEN FNorm(s, NAdd(qr[1], <<1>>), e)
    ELSE [s |-> s, m |-> qr[1], e |-> e]

\* qs = <<the 54 leading bits, 1 if a lower bit is set>>
FRoundShr(s, qs, st, e) ==
    FRoundUp(s, NDivSmall(qs[1], 2), IF qs[2] = 1 \/ st = 1 THEN 1 ELSE 0, e)

\* n has L bits
FRoundBits(s, n, e, st, L) ==
    IF L <= MantBits
    THEN [s |-> s, m |-> NShl(n, MantBits - L), e |-> e - (MantBits - L)]
    ELSE FRoundShr(s, NShr(n, L - MantBits - 1), st, e + (L - MantBits))

\* the float nearest to s * (n + x) * 2^e, where x = 0 if st = 0 and
\* 0 < x < 1 if st = 1 (and then n has more than 54 bits)
FRound(s, n, e, st) ==
    IF n = <<>> THEN FZero ELSE FRoundBits(s, n, e, st, NBits(n))

\* the float of an integer
FInt(k) ==
    IF k = 0 THEN FZero
    ELSE IF k > 0 THEN FRound(1, NFromInt(k), 0, 0)
    ELSE FRound(-1, NFromInt(-k), 0, 0)

FNeg(a) == [a EXCEPT !.s = IF a.s = 2 THEN 2 ELSE -a.s]
FAbs(a) == [a EXCEPT !.s = IF a.s = 2 THEN 2 ELSE a.s * a.s]

\* a * b
FMul(a, b) ==
    IF IsErr(a) \/ IsErr(b) THEN FErr
    ELSE IF a.s = 0 \/ b.s = 0 THEN FZero
    ELSE IF b.m = Mant1
    THEN [s |-> a.s * b.s, m |-> a.m, e |-> a.e + b.e + MantBits - 1]
    ELSE FRound(a.s * b.s, NMul(a.m, b.m), a.e + b.e, 0)

\* qr = <<quotient, remainder>> of the significands' division
FDivRound(s, qr, e) == FRound(s, qr[1], e, IF qr[2] = <<>> THEN 0 ELSE 1)

\* a / b; dividing by zero raises
FDiv(a, b) ==
    IF IsErr(a) \/ IsErr(b) \/ b.s = 0 THEN FErr
    ELSE IF a.s = 0 THEN FZero
    ELSE IF b.m = Mant1
    THEN [s |-> a.s * b.s, m |-> a.m, e |-> a.e - b.e - (MantBits - 1)]
    ELSE FDivRound(a.s * b.s, NDivMod(Zeros(4) \o a.m, b.m), a.e - b.e - 60)

FAddSum(sn, e) == FRound(sn[1], sn[2], e, 0)

\* hi.e >= lo.e and the significands overlap: the exact sum, rounded
FAddNear(hi, lo) ==
    FAddSum(NSignedSum(hi.s, NShl(hi.m, hi.e - lo.e), lo.s, lo.m), lo.e)

\* lo is less than a quarter of the last bit of hi: only its sign matters
FAddFar(hi, lo) ==
    FRound(hi.s,
           IF hi.s = lo.s THEN NShl(hi.m, 2) ELSE NSub(NShl(hi.m, 2), <<1>>),
           hi.e - 2, 1)

FAddOrd(hi, lo) ==
    IF hi.e - lo.e > 64 THEN FAddFar(hi, lo) ELSE FAddNear(hi, lo)

\* a + b
FAdd(a, b) ==
    IF IsErr(a) \/ IsErr(b) THEN FErr
    ELSE IF a.s = 0 THEN b
    ELSE IF b.s = 0 THEN a
    ELSE IF a.e >= b.e THEN FAddOrd(a, b)
    ELSE FAddOrd(b, a)

FSub(a, b) == FAdd(a, FNeg(b))

\* -1, 0 or 1 as a < b, a = b or a > b (neither is an error value)
FCmp(a, b) ==
    IF a.s # b.s THEN (IF a.s < b.s THEN -1 ELSE 1)
    ELSE IF a.s = 0 THEN 0
    ELSE IF a.e # b.e THEN (IF a.e < b.e THEN -a.s ELSE a.s)
    ELSE a.s * NCmp(a.m, b.m)

FGt(a, b) == FCmp(a, b) > 0
FGe(a, b) == FCmp(a, b) >= 0
FLe(a, b) == FCmp(a, b) <= 0
FLt(a, b) == FCmp(a, b) < 0

F0 == FZero
F1 == FInt(1)
F2 == FInt(2)

\* the float written 1.0e-k
FPow10Inv(k) == FDiv(F1, FRound(1, NPow10(k), 0, 0))

-----------------------------------------------------------------------------
(* Exact rationals [s, n, d], for stating properties.                      *)

QInt(k) ==
    IF k = 0 THEN [s |-> 0, n |-> <<>>, d |-> <<1>>]
    ELSE IF k > 0 THEN [s |-> 1, n |-> NFromInt(k), d |-> <<1>>]
    ELSE [s |-> -1, n |-> NFromInt(-k), d |-> <<1>>]

\* a / b for integers a and b > 0
QFrac(a, b) == [QInt(a) EXCEPT !.d = NFromInt(b)]

\* 10 ^ (-k)
QPow10Inv(k) == [s |-> 1, n |-> <<1>>, d |-> NPow10(k)]

RECURSIVE QDyadic(_, _, _)
\* s * n / 2^k, with the factors of 2 that n and 2^k share cancelled
QDyadic(s, n, k) ==
    IF k >= 15 /\ n[1] = 0 THEN QDyadic(s, Tail(n), k - 15)
    ELSE IF k >= 1 /\ n[1] % 2 = 0 THEN QDyadic(s, NShr(n, 1)[1], k - 1)
    ELSE [s |-> s, n |-> n, d |-> NShl(<<1>>, k)]

\* the exact value of a float
QOf(a) ==
    IF a.s = 0 THEN [s |-> 0, n |-> <<>>, d |-> <<1>>]
    ELSE IF a.e >= 0 THEN [s |-> a.s, n |-> NShl(a.m, a.e), d |-> <<1>>]
    ELSE QDyadic(a.s, a.m, -a.e)

Zero == QInt(0)
One == QInt(1)

QNeg(a) == [a EXCEPT !.s = -a.s]
QAbs(a) == [a EXCEPT !.s = a.s * a.s]

\* <<ma, mb, dd>> for denominators da >= db: x / da = x * ma / dd and
\* y / db = y * mb / dd; dd is da when db divides it, else the product
QMultsOf(da, db, qr) ==
    IF qr[2] = <<>> THEN <<<<1>>, qr[1], da>> ELSE <<db, da, NMul(da, db)>>

QMultsBig(da, db) ==
    IF Len(da) - Len(db) <= 1
    THEN QMultsOf(da, db, NDivMod(da, db))
    ELSE <<db, da, NMul(da, db)>>

QMultsSwap(m) == <<m[2], m[1], m[3]>>

QMults(da, db) ==
    IF da = db THEN <<<<1>>, <<1>>, da>>
    ELSE IF NCmp(da, db) >= 0 THEN QMultsBig(da, db)
    ELSE QMultsSwap(QMultsBig(db, da))

QOver(sn, dd) == [s |-> sn[1], n |-> sn[2], d |-> dd]

QAddOver(a, b, m) ==
    QOver(NSignedSum(a.s, NMul(a.n, m[1]), b.s, NMul(b.n, m[2])), m[3])

QAdd(a, b) ==
    IF a.s = 0 THEN b
    ELSE IF b.s = 0 THEN a
    ELSE QAddOver(a, b, QMults(a.d, b.d))

QSub(a, b) == QAdd(a, QNeg(b))

QMul(a, b) ==
    IF a.s = 0 \/ b.s = 0 THEN Zero
    ELSE [s |-> a.s * b.s, n |-> NMul(a.n, b.n), d |-> NMul(a.d, b.d)]

\* a / b for b # 0
QDiv(a, b) ==
    IF a.s = 0 THEN Zero
    ELSE [s |-> a.s * b.s, n |-> NMul(a.n, b.d), d |-> NMul(a.d, b.n)]

\* -1, 0 or 1 as a < b, a = b or a > b
QCmp(a, b) ==
    IF a.s # b.s THEN (IF a.s < b.s THEN -1 ELSE 1)
    ELSE IF a.s = 0 THEN 0
    ELSE a.s * NCmp(NMul(a.n, b.d), NMul(b.n, a.d))

QGt(a, b) == QCmp(a, b) > 0
QGe(a, b) == QCmp(a, b) >= 0
QLt(a, b) == QCmp(a, b) < 0
QLe(a, b) == QCmp(a, b) <= 0
QEq(a, b) == QCmp(a, b) = 0

-----------------------------------------------------------------------------
(* The program's constants.                                                *)

Sentinel == 1000000        \* 1000000.0: "go long / short to the max"
BisectTolExp == 8          \* 1.0e-8, the bracket width that ends a bisection
NewtonTolExp == 10         \* 1.0e-10, the step that ends a Newton iteration
EpsExp == 6                \* 0.000001, substituted for a zero denominator

BisectTol == FPow10Inv(BisectTolExp)
NewtonTol == FPow10Inv(NewtonTolExp)
Eps == FPow10Inv(EpsExp)

-----------------------------------------------------------------------------
(* The pure functions.  rv and pv are sequences of floats.                 *)

RECURSIVE expectation_loop(_, _, _, _)
expectation_loop(pv, rv, i, e) ==
    IF i > Len(pv) THEN e
    ELSE expectation_loop(pv, rv, i + 1, FAdd(e, FMul(pv[i], rv[i])))

expectation(pv, rv) == expectation_loop(pv, rv, 1, F0)

\* a faulty term with the denominator 1 - rv[i] * f; C6_Monotone tells it
\* from dgsingle_term
dgsingle_term_minus(rv, pv, f, i) ==
    FDiv(FMul(pv[i], rv[i]), FSub(F1, FMul(rv[i], f)))

dgsingle_term(rv, pv, f, i) ==
    FDiv(FMul(pv[i], rv[i]), FAdd(F1, FMul(rv[i], f)))

RECURSIVE dgsingle_loop(_, _, _, _, _)
dgsingle_loop(rv, pv, f, i, sum) ==
    IF i > Len(pv) THEN sum
    ELSE dgsingle_loop(rv, pv, f, i + 1, FAdd(sum, dgsingle_term(rv, pv, f, i)))

dgsingle(rv, pv, f) == dgsingle_loop(rv, pv, f, 1, F0)

\* a faulty loop body that adds rv1[i] * d to both sums; C5_Scaled tells it
\* from dgidouble_add
dgidouble_add_first(acc, r1, r2, d) ==
    <<FAdd(acc[1], FMul(r1, d)), FAdd(acc[2], FMul(r1, d))>>

\* lines 109-113, the inner loop body of dgidouble, given the quotient
\* d = pv1[i] * pv2[j] / (1 + rv1[i] * f1 + rv2[j] * f2); acc = <<sum1, sum2>>
dgidouble_add(acc, r1, r2, d) ==
    <<FAdd(acc[1], FMul(r1, d)), FAdd(acc[2], FMul(r2, d))>>

dgidouble_body(rv1, rv2, pv1, pv2, f1, f2, i, j, acc) ==
    dgidouble_add(acc, rv1[i], rv2[j],
                  FDiv(FMul(pv1[i], pv2[j]),
                       FAdd(FAdd(F1, FMul(rv1[i], f1)), FMul(rv2[j], f2))))

RECURSIVE dgidouble_loop(_, _, _, _, _, _, _, _, _)
dgidouble_loop(rv1, rv2, pv1, pv2, f1, f2, i, j, acc) ==
    IF i > Len(rv1) THEN acc
    ELSE IF j > Len(rv2)
    THEN dgidouble_loop(rv1, rv2, pv1, pv2, f1, f2, i + 1, 1, acc)
    ELSE dgidouble_loop(rv1, rv2, pv1, pv2, f1, f2, i, j + 1,
                        dgidouble_body(rv1, rv2, pv1, pv2, f1, f2, i, j, acc))

dgidouble(rv1, rv2, pv1, pv2, f1, f2) ==
    dgidouble_loop(rv1, rv2, pv1, pv2, f1, f2, 1, 1, <<F0, F0>>)

\* lines 19-20 and 47-48: a zero denominator is replaced by 0.000001
iter_d1(d1) == IF d1.s = 0 THEN Eps ELSE d1

\* faulty sums that leave the probability weights out of s2 and s3;
\* C3_Kelly tells them from single_iter_sums
single_iter_sums_unweighted(acc, d2, d3) ==
    <<FAdd(acc[1], d2), FAdd(acc[2], d2), FAdd(acc[3], FMul(d2, d2))>>

\* lines 23-25 of single_iter.f: acc = <<s1, s2, s3>>
single_iter_sums(acc, d2, d3) ==
    <<FAdd(acc[1], d2), FAdd(acc[2], d3), FAdd(acc[3], FMul(d2, d3))>>

\* line 22
single_iter_d3(acc, pk, d2) == single_iter_sums(acc, d2, FMul(pk, d2))

\* lines 16-25, the loop body
single_iter_body(rv, pv, x, k, acc) ==
    single_iter_d3(acc, pv[k], FDiv(rv[k], iter_d1(FAdd(F1, FMul(rv[k], x)))))

RECURSIVE single_iter_loop(_, _, _, _, _)
single_iter_loop(rv, pv, x, k, acc) ==
    IF k > Len(pv) THEN acc
    ELSE single_iter_loop(rv, pv, x, k + 1, single_iter_body(rv, pv, x, k, acc))

\* the textbook Newton step x - s2 / (-s3), without the s1 * s2 of line 26;
\* C7_Scaled tells it from single_iter_step
single_iter_step_plain(x, s1, s2, s3) ==
    FSub(x, FDiv(s2, FNeg(s3)))

\* line 26
single_iter_step(x, s1, s2, s3) ==
    FSub(x, FDiv(s2, FSub(FMul(s1, s2), s3)))

single_iter_result(x, acc) == single_iter_step(x, acc[1], acc[2], acc[3])

single_iter_f(rv, pv, x) ==
    single_iter_result(x, single_iter_loop(rv, pv, x, 1, <<F0, F0, F0>>))

\* lines 53-59 of idouble_iter.f: acc = <<s1, ..., s7>>
idouble_iter_sums(acc, Rkl, Skl, pklRkl, pklSkl) ==
    <<FAdd(acc[1], Rkl), FAdd(acc[2], Skl), FAdd(acc[3], pklRkl),
      FAdd(acc[4], pklSkl), FAdd(acc[5], FMul(pklRkl, Rkl)),
      FAdd(acc[6], FMul(pklSkl, Skl)), FAdd(acc[7], FMul(pklRkl, Skl))>>

\* lines 51-52
idouble_iter_terms(acc, pkl, Rkl, Skl) ==
    idouble_iter_sums(acc, Rkl, Skl, FMul(pkl, Rkl), FMul(pkl, Skl))

\* lines 49-50
idouble_iter_quot(acc, pkl, rk, sl, d1) ==
    idouble_iter_terms(acc, pkl, FDiv(rk, d1), FDiv(sl, d1))

\* lines 43-59, the inner loop body
idouble_iter_body(rv1, rv2, pv1, pv2, x, y, k, m, acc) ==
    idouble_iter_quot(acc, FMul(pv1[k], pv2[m]), rv1[k], rv2[m],
                      iter_d1(FAdd(FAdd(F1, FMul(rv1[k], x)), FMul(rv2[m], y))))

RECURSIVE idouble_iter_loop(_, _, _, _, _, _, _, _, _)
idouble_iter_loop(rv1, rv2, pv1, pv2, x, y, k, m, acc) ==
    IF k > Len(pv1) THEN acc
    ELSE IF m > Len(pv2)
    THEN idouble_iter_loop(rv1, rv2, pv1, pv2, x, y, k + 1, 1, acc)
    ELSE IF Len(acc) > 0
    THEN idouble_iter_loop(rv1, rv2, pv1, pv2, x, y, k, m + 1,
                           idouble_iter_body(rv1, rv2, pv1, pv2, x, y, k, m, acc))
    ELSE acc

\* lines 66-68
idouble_iter_delta(x, y, nx, ny, det) ==
    <<FAdd(x, FDiv(nx, det)), FAdd(y, FDiv(ny, det))>>

\* lines 64-66
idouble_iter_solve(x, y, s3, s4, fx, fy, gx, gy) ==
    idouble_iter_delta(x, y,
                       FSub(FMul(s4, fy), FMul(s3, gy)),
                       FSub(FMul(s3, gx), FMul(s4, fx)),
                       FSub(FMul(fx, gy), FMul(fy, gx)))

\* lines 60-63
idouble_iter_step(x, y, s) ==
    idouble_iter_solve(x, y, s[3], s[4],
                       FSub(FMul(s[1], s[3]), s[5]),
                       FSub(FMul(s[2], s[3]), s[7]),
                       FSub(FMul(s[1], s[4]), s[7]),
                       FSub(FMul(s[2], s[4]), s[6]))

idouble_iter_f(rv1, rv2, pv1, pv2, v0) ==
    idouble_iter_step(v0[1], v0[2],
                      idouble_iter_loop(rv1, rv2, pv1, pv2, v0[1], v0[2], 1, 1,
                                        <<F0, F0, F0, F0, F0, F0, F0>>))

-----------------------------------------------------------------------------
(* State.  One call of one entry point runs to its return (or to a raised *)
(* exception).                                                             *)

VARIABLES
    op,     \* the entry point called
    rv1,    \* returns of bet 1 (the only bet of a single-bet call)
    pv1,    \* probabilities of bet 1
    rv2,    \* returns of bet 2, <<>> for a single-bet call
    pv2,    \* probabilities of bet 2
    fr,     \* the fraction arguments of an evaluator call
    pc,     \* where control is
    bet,    \* inside kfidouble: which kfsingle call is running (1 or 2)
    k1,     \* the locals of the running kfsingle call
    k2,     \* the locals of the running kfidouble call
    ret,    \* the values returned so far, as a sequence
    nbis,   \* iterations of kfidouble's bisection loop run so far
    nnewt   \* evaluations of idouble_iter.f made so far

vars == <<op, rv1, pv1, rv2, pv2, fr, pc, bet, k1, k2, ret, nbis, nnewt>>

args == <<op, rv1, pv1, rv2, pv2, fr>>

\* the locals of kfsingle(rv, pv) on entry
Frame1(rv, pv) ==
    [rv |-> rv, pv |-> pv, xmin |-> F0, xmax |-> F0, x |-> F0,
     x0 |-> F0, x1 |-> F0]

\* the locals of kfidouble on entry
Frame2 ==
    [fs1 |-> F0, fs2 |-> F0, xmin |-> F0, xmax |-> F0, x |-> F0,
     ymin |-> F0, ymax |-> F0, y |-> F0,
     v0 |-> <<F0, F0>>, v1 |-> <<F0, F0>>]

\* max(rv) and min(rv) of a non-empty sequence
SeqMin(rv) == rv[CHOOSE i \in 1..Len(rv) : \A j \in 1..Len(rv) : FLe(rv[i], rv[j])]
\* a faulty max(rv) that looks at the first return only; C1_Sentinels
\* tells it from SeqMax
SeqFirst(rv) == rv[1]
SeqMax(rv) == rv[CHOOSE i \in 1..Len(rv) : \A j \in 1..Len(rv) : FLe(rv[j], rv[i])]

-----------------------------------------------------------------------------
(* kfsingle, lines 118-156.                                                *)

\* `return v` of kfsingle: to the caller of a direct call, or back into
\* kfidouble (lines 171-172), which then makes its second call or goes on
kfsingle_return(v) ==
    IF op = "kfsingle"
    THEN /\ pc' = "done"
         /\ ret' = <<v>>
         /\ UNCHANGED <<bet, k2>>
    ELSE IF bet = 1
    THEN /\ pc' = "kfsingle"
         /\ bet' = 2
         /\ k2' = [k2 EXCEPT !.fs1 = v]
         /\ UNCHANGED ret
    ELSE /\ pc' = "kfidouble_check"
         /\ k2' = [k2 EXCEPT !.fs2 = v]
         /\ UNCHANGED <<bet, ret>>

\* a faulty initial bracket whose first x is the pole itself, not half of
\* it; C9_Inside tells it from kfsingle_bracket
kfsingle_bracket_end(fresh, e, rmax, rmin) ==
    IF FGe(e, F0)
    THEN k1' = [fresh EXCEPT !.xmax = FDiv(FInt(-1), rmin),
                             !.xmin = F0,
                             !.x = FDiv(FInt(-1), rmin)]
    ELSE k1' = [fresh EXCEPT !.xmax = F0,
                             !.xmin = FDiv(FInt(-1), rmax),
                             !.x = FDiv(FInt(-1), rmax)]

\* lines 133-140: the initial bracket, between 0 and the pole -1 / r
kfsingle_bracket(fresh, e, rmax, rmin) ==
    IF FGe(e, F0)
    THEN k1' = [fresh EXCEPT !.xmax = FDiv(FInt(-1), rmin),
                             !.xmin = F0,
                             !.x = FDiv(FDiv(FInt(-1), rmin), F2)]
    ELSE k1' = [fresh EXCEPT !.xmax = F0,
                             !.xmin = FDiv(FInt(-1), rmax),
                             !.x = FDiv(FDiv(FInt(-1), rmax), F2)]

\* lines 124-140 of kfsingle(rv, pv)
kfsingle_body(rv, pv, rmax, rmin) ==
    IF FLe(rmax, F0)
    THEN /\ kfsingle_return(FInt(-Sentinel))
         /\ k1' = Frame1(rv, pv)
    ELSE IF FGe(rmin, F0)
    THEN /\ kfsingle_return(FInt(Sentinel))
         /\ k1' = Frame1(rv, pv)
    ELSE /\ kfsingle_bracket(Frame1(rv, pv), expectation(pv, rv), rmax, rmin)
         /\ pc' = "kfsingle_bisect"
         /\ UNCHANGED <<bet, k2, ret>>

kfsingle_call(rv, pv) == kfsingle_body(rv, pv, SeqMax(rv), SeqMin(rv))

\* lines 124-140: the sentinel shortcuts and the initial bracket
kfsingle_enter ==
    /\ pc = "kfsingle"
    /\ IF op = "kfsingle" \/ bet = 1
       THEN kfsingle_call(rv1, pv1)
       ELSE kfsingle_call(rv2, pv2)
    /\ UNCHANGED <<args, nbis, nnewt>>

\* lines 147-148: the bracket becomes [lo, hi] and x its midpoint
kfsingle_halve(lo, hi) ==
    k1' = [k1 EXCEPT !.xmin = lo, !.xmax = hi, !.x = FDiv(FAdd(hi, lo), F2)]

\* a faulty loop body that moves xmax where line 145 moves xmin;
\* C8_Encloses tells it from kfsingle_bisect_on
kfsingle_bisect_on_flipped(dg) ==
    IF IsErr(dg)
    THEN pc' = "raised" /\ UNCHANGED k1
    ELSE /\ IF FGt(dg, F0)
            THEN kfsingle_halve(k1.xmin, k1.x)
            ELSE kfsingle_halve(k1.x, k1.xmax)
         /\ pc' = "kfsingle_bisect"

\* lines 144-148, given the value dg of dgsingle(rv, pv, x)
kfsingle_bisect_on(dg) ==
    IF IsErr(dg)
    THEN pc' = "raised" /\ UNCHANGED k1
    ELSE /\ IF FGt(dg, F0)
            THEN kfsingle_halve(k1.x, k1.xmax)
            ELSE kfsingle_halve(k1.xmin, k1.x)
         /\ pc' = "kfsingle_bisect"

\* lines 143-148: one iteration of the bisection loop
kfsingle_bisect ==
    /\ pc = "kfsingle_bisect"
    /\ FGt(FSub(k1.xmax, k1.xmin), BisectTol)
    /\ kfsingle_bisect_on(dgsingle(k1.rv, k1.pv, k1.x))
    /\ UNCHANGED <<args, bet, k2, ret, nbis, nnewt>>

\* x0 = prev; x1 = fx, where fx is the value of fiter.f(prev)
kfsingle_newton_to(prev, fx) ==
    IF IsErr(fx)
    THEN pc' = "raised" /\ UNCHANGED k1
    ELSE /\ k1' = [k1 EXCEPT !.x0 = prev, !.x1 = fx]
         /\ pc' = "kfsingle_newton"

\* lines 151-152: the loop has ended; the first Newton step
kfsingle_newton_first ==
    /\ pc = "kfsingle_bisect"
    /\ ~ FGt(FSub(k1.xmax, k1.xmin), BisectTol)
    /\ kfsingle_newton_to(k1.x, single_iter_f(k1.rv, k1.pv, k1.x))
    /\ UNCHANGED <<args, bet, k2, ret, nbis, nnewt>>

\* lines 153-155: one more Newton step
kfsingle_newton ==
    /\ pc = "kfsingle_newton"
    /\ FGt(FAbs(FSub(k1.x1, k1.x0)), NewtonTol)
    /\ kfsingle_newton_to(k1.x1, single_iter_f(k1.rv, k1.pv, k1.x1))
    /\ UNCHANGED <<args, bet, k2, ret, nbis, nnewt>>

\* line 156: return x1
kfsingle_done ==
    /\ pc = "kfsingle_newton"
    /\ ~ FGt(FAbs(FSub(k1.x1, k1.x0)), NewtonTol)
    /\ kfsingle_return(k1.x1)
    /\ UNCHANGED <<args, k1, nbis, nnewt>>

-----------------------------------------------------------------------------
(* kfidouble, lines 159-223.                                               *)

MaxNewt == 3       \* nnewt counts up to MaxNewt and stays there

\* lines 169-171: the first call of kfsingle
kfidouble_enter ==
    /\ pc = "kfidouble"
    /\ pc' = "kfsingle"
    /\ UNCHANGED <<args, bet, k1, k2, ret, nbis, nnewt>>

\* `return [a, b]` of kfidouble
kfidouble_return(a, b) ==
    /\ pc' = "done"
    /\ ret' = <<a, b>>

\* a faulty test that forgets abs() and so misses -1000000.0; C2_Shortcut
\* tells it from IsSentinel
IsSentinelLong(v) == v = FInt(Sentinel)
IsSentinel(v) == FAbs(v) = FInt(Sentinel)

\* lines 185-200: the initial box, between 0 and each single-bet fraction
kfidouble_box(fs1, fs2) ==
    k2' = [k2 EXCEPT !.xmax = IF FGt(fs1, F0) THEN fs1 ELSE F0,
                     !.xmin = IF FGt(fs1, F0) THEN F0 ELSE fs1,
                     !.x = FDiv(fs1, F2),
                     !.ymax = IF FGt(fs2, F0) THEN fs2 ELSE F0,
                     !.ymin = IF FGt(fs2, F0) THEN F0 ELSE fs2,
                     !.y = FDiv(fs2, F2)]

\* lines 176-200: the sentinel shortcuts and the initial box
kfidouble_check ==
    /\ pc = "kfidouble_check"
    /\ IF IsSentinel(k2.fs1)
       THEN /\ IF IsSentinel(k2.fs2)
               THEN kfidouble_return(k2.fs1, k2.fs2)
               ELSE kfidouble_return(k2.fs1, F0)
            /\ UNCHANGED k2
       ELSE IF IsSentinel(k2.fs2)
       THEN /\ kfidouble_return(F0, k2.fs2)
            /\ UNCHANGED k2
       ELSE /\ kfidouble_box(k2.fs1, k2.fs2)
            /\ pc' = "kfidouble_bisect"
            /\ UNCHANGED ret
    /\ UNCHANGED <<args, bet, k1, nbis, nnewt>>

\* a faulty loop condition with `or` for `and`; C10_Bisection tells it from
\* kfidouble_wide
kfidouble_either_wide ==
    \/ FGt(FSub(k2.xmax, k2.xmin), BisectTol)
    \/ FGt(FSub(k2.ymax, k2.ymin), BisectTol)

\* the loop condition of line 204
kfidouble_wide ==
    /\ FGt(FSub(k2.xmax, k2.xmin), BisectTol)
    /\ FGt(FSub(k2.ymax, k2.ymin), BisectTol)

\* lines 206-215: the box becomes [xlo, xhi] x [ylo, yhi], (x, y) its centre
kfidouble_halve(xlo, xhi, ylo, yhi) ==
    k2' = [k2 EXCEPT !.xmin = xlo, !.xmax = xhi, !.ymin = ylo, !.ymax = yhi,
                     !.x = FDiv(FAdd(xhi, xlo), F2),
                     !.y = FDiv(FAdd(yhi, ylo), F2)]

\* lines 205-215, given the value fv of dgidouble(rv1, rv2, pv1, pv2, x, y)
kfidouble_bisect_on(fv) ==
    IF IsErr(fv[1]) \/ IsErr(fv[2])
    THEN pc' = "raised" /\ UNCHANGED <<k2, nbis>>
    ELSE /\ kfidouble_halve(IF FGt(fv[1], F0) THEN k2.x ELSE k2.xmin,
                            IF FGt(fv[1], F0) THEN k2.xmax ELSE k2.x,
                            IF FGt(fv[2], F0) THEN k2.y ELSE k2.ymin,
                            IF FGt(fv[2], F0) THEN k2.ymax ELSE k2.y)
         /\ pc' = "kfidouble_bisect"
         /\ nbis' = nbis + 1

\* lines 204-215: one iteration of the bisection loop
kfidouble_bisect ==
    /\ pc = "kfidouble_bisect"
    /\ kfidouble_wide
    /\ kfidouble_bisect_on(dgidouble(rv1, rv2, pv1, pv2, k2.x, k2.y))
    /\ UNCHANGED <<args, bet, k1, ret, nnewt>>

\* v0 = prev; v1 = fv, where fv is the value of fiter.f(prev)
kfidouble_newton_to(prev, fv) ==
    IF IsErr(fv[1]) \/ IsErr(fv[2])
    THEN pc' = "raised" /\ UNCHANGED <<k2, nnewt>>
    ELSE /\ k2' = [k2 EXCEPT !.v0 = prev, !.v1 = fv]
         /\ pc' = "kfidouble_newton"
         /\ nnewt' = IF nnewt < MaxNewt THEN nnewt + 1 ELSE nnewt

\* lines 218-219: the loop has ended; the first Newton step
kfidouble_newton_first ==
    /\ pc = "kfidouble_bisect"
    /\ ~ kfidouble_wide
    /\ kfidouble_newton_to(<<k2.x, k2.y>>,
                           idouble_iter_f(rv1, rv2, pv1, pv2, <<k2.x, k2.y>>))
    /\ UNCHANGED <<args, bet, k1, ret, nbis>>

\* the loop condition of line 220
kfidouble_moving ==
    \/ FGt(FAbs(FSub(k2.v1[1], k2.v0[1])), NewtonTol)
    \/ FGt(FAbs(FSub(k2.v1[2], k2.v0[2])), NewtonTol)

\* lines 220-222: one more Newton step
kfidouble_newton ==
    /\ pc = "kfidouble_newton"
    /\ kfidouble_moving
    /\ kfidouble_newton_to(k2.v1, idouble_iter_f(rv1, rv2, pv1, pv2, k2.v1))
    /\ UNCHANGED <<args, bet, k1, ret, nbis>>

\* line 223: return v1
kfidouble_done ==
    /\ pc = "kfidouble_newton"
    /\ ~ kfidouble_moving
    /\ kfidouble_return(k2.v1[1], k2.v1[2])
    /\ UNCHANGED <<args, bet, k1, k2, nbis, nnewt>>

-----------------------------------------------------------------------------
(* Direct calls of the evaluators.                                         *)

call_dgsingle_to(v) ==
    IF IsErr(v)
    THEN pc' = "raised" /\ UNCHANGED ret
    ELSE /\ ret' = Append(ret, v)
         /\ pc' = IF Len(ret) + 1 = Len(fr) THEN "done" ELSE "dgsingle"

\* dgsingle(rv1, pv1, f) for the next fraction f of fr, as test_dgsingle
\* evaluates it at one fraction after another
call_dgsingle ==
    /\ pc = "dgsingle"
    /\ call_dgsingle_to(dgsingle(rv1, pv1, fr[Len(ret) + 1]))
    /\ UNCHANGED <<args, bet, k1, k2, nbis, nnewt>>

call_dgidouble_to(v) ==
    IF IsErr(v[1]) \/ IsErr(v[2])
    THEN pc' = "raised" /\ UNCHANGED ret
    ELSE ret' = v /\ pc' = "done"

\* dgidouble(rv1, rv2, pv1, pv2, fr[1], fr[2])
call_dgidouble ==
    /\ pc = "dgidouble"
    /\ call_dgidouble_to(dgidouble(rv1, rv2, pv1, pv2, fr[1], fr[2]))
    /\ UNCHANGED <<args, bet, k1, k2, nbis, nnewt>>

call_single_iter_f_to(v) ==
    IF IsErr(v)
    THEN pc' = "raised" /\ UNCHANGED ret
    ELSE ret' = <<v>> /\ pc' = "done"

\* single_iter(rv1, pv1).f(fr[1])
call_single_iter_f ==
    /\ pc = "single_iter_f"
    /\ call_single_iter_f_to(single_iter_f(rv1, pv1, fr[1]))
    /\ UNCHANGED <<args, bet, k1, k2, nbis, nnewt>>

-----------------------------------------------------------------------------
(* The calls made.                                                         *)

MaxRet == 2        \* returns are the integers -MaxRet..MaxRet
ProbDen == 30      \* probabilities are multiples of 1 / ProbDen
MaxFrac == 4       \* fraction arguments are the halves -MaxFrac/2..MaxFrac/2

\* the float k / n
FFrac(k, n) == FDiv(FInt(k), FInt(n))

Returns == {FInt(r) : r \in (-MaxRet)..MaxRet}

\* a gain r and a loss q
GainLoss == {<<FInt(r), FInt(-q)>> : <<r, q>> \in (1..MaxRet) \X (1..MaxRet)}

Tenth == ProbDen \div 10
Fifth == ProbDen \div 5

\* two-outcome probability vectors (p, 1 - p), p from 0 on in steps of a tenth
Probs2 ==
    {<<FFrac(Tenth * j, ProbDen), FFrac(ProbDen - Tenth * j, ProbDen)>> : j \in 0..10}

\* three-outcome probability vectors, every entry positive
Probs3 ==
    {<<FFrac(Fifth * c[1], ProbDen), FFrac(Fifth * c[2], ProbDen),
       FFrac(ProbDen - Fifth * (c[1] + c[2]), ProbDen)>> : c \in (1..2) \X (1..2)}

\* a loss, a gain and a return between them
Returns3 ==
    {<<FInt(t[1]), FInt(t[2]), FInt(t[3])>> :
        t \in {u \in ((-MaxRet)..(-1)) \X ((-MaxRet)..MaxRet) \X (1..MaxRet) :
                 u[1] < u[2] /\ u[2] < u[3]}}

\* the distributions kfsingle is called with: <<rv, pv>>
SingleDists ==
    ({<<r>> : r \in Returns} \X {<<F1>>})
    \cup ({<<r, q>> : <<r, q>> \in Returns \X Returns} \X Probs2)
    \cup (Returns3 \X Probs3)

\* two weights that need not sum to 1: none, a fifth, a half, four fifths
EvalWeights == {0, Fifth, ProbDen \div 2, ProbDen - Fifth}

EvalProbs2 == {<<FFrac(a, ProbDen), FFrac(b, ProbDen)>> : <<a, b>> \in EvalWeights \X EvalWeights}

\* the fractions the evaluators are called at
Fractions == {FFrac(k, 2) : k \in (-MaxFrac)..MaxFrac}

InitCall(o, d1, d2, f) ==
    /\ op = o
    /\ rv1 = d1[1]
    /\ pv1 = d1[2]
    /\ rv2 = d2[1]
    /\ pv2 = d2[2]
    /\ fr = f
    /\ pc = o
    /\ bet = 1
    /\ k1 = Frame1(<<>>, <<>>)
    /\ k2 = Frame2
    /\ ret = <<>>
    /\ nbis = 0
    /\ nnewt = 0

NoDist == <<<<>>, <<>>>>

InitSingle == \E d \in SingleDists : InitCall("kfsingle", d, NoDist, <<>>)

NextSingle ==
    \/ kfsingle_enter
    \/ kfsingle_bisect
    \/ kfsingle_newton_first
    \/ kfsingle_newton
    \/ kfsingle_done

SpecSingle == InitSingle /\ [][NextSingle]_vars

\* the call has returned or raised: no step of any entry point is enabled
Halted == pc \in {"done", "raised"}

\* kfsingle is one sequential call: a step that can be taken is taken.  This
\* is WF_vars(NextSingle), with ~ ENABLED <<NextSingle>>_vars written as the
\* state predicate Halted it is equivalent to
FairSingle == SpecSingle /\ ([]<>Halted \/ []<><<NextSingle>>_vars)

\* the weights k of the probability vectors (k, ProbDen - k) / ProbDen that
\* kfidouble is called with
DoubleWeights == {5, 15, 18, 25, 27}

DoubleProbs == {<<FFrac(k, ProbDen), FFrac(ProbDen - k, ProbDen)>> : k \in DoubleWeights}

\* bet 1: win r or lose 1; or never lose; or never win
Bet1Dists ==
    ({<<FInt(r), FInt(-1)>> : r \in 1..MaxRet}
       \cup {<<FInt(1), FInt(0)>>, <<FInt(0), FInt(-1)>>}) \X DoubleProbs

\* bet 2: win 1 or lose 1; or never lose; or never win
Bet2Dists ==
    {<<FInt(1), FInt(-1)>>, <<FInt(1), FInt(0)>>, <<FInt(0), FInt(-1)>>} \X DoubleProbs

InitDouble ==
    \E d1 \in Bet1Dists, d2 \in Bet2Dists : InitCall("kfidouble", d1, d2, <<>>)

NextDouble ==
    \/ kfidouble_enter
    \/ kfsingle_enter
    \/ kfsingle_bisect
    \/ kfsingle_newton_first
    \/ kfsingle_newton
    \/ kfsingle_done
    \/ kfidouble_check
    \/ kfidouble_bisect
    \/ kfidouble_newton_first
    \/ kfidouble_newton
    \/ kfidouble_done

SpecDouble == InitDouble /\ [][NextDouble]_vars

\* kfidouble is one sequential call: a step that can be taken is taken.
\* This is WF_vars(NextDouble), with ~ ENABLED <<NextDouble>>_vars written as
\* the state predicate Halted it is equivalent to
FairDouble == SpecDouble /\ ([]<>Halted \/ []<><<NextDouble>>_vars)

\* dgsingle at a fraction f and then at a larger fraction g
InitDgsingle ==
    \E rv \in GainLoss, pv \in EvalProbs2, f \in Fractions, g \in Fractions :
        /\ FLt(f, g)
        /\ InitCall("dgsingle", <<rv, pv>>, NoDist, <<f, g>>)

NextDgsingle == call_dgsingle

SpecDgsingle == InitDgsingle /\ [][NextDgsingle]_vars

\* dgidouble at (0, 0)
InitDgidouble ==
    \E r \in 0..MaxRet, pa \in EvalProbs2, rb \in {<<F1, FInt(-1)>>, <<FInt(MaxRet), FInt(-MaxRet)>>},
       pb \in EvalProbs2 :
        InitCall("dgidouble", <<<<FInt(r), FInt(-1)>>, pa>>, <<rb, pb>>, <<F0, F0>>)

NextDgidouble == call_dgidouble

SpecDgidouble == InitDgidouble /\ [][NextDgidouble]_vars

\* single_iter.f at one fraction
InitIter ==
    \E d \in (GainLoss \X EvalProbs2) \cup (Returns3 \X Probs3), x \in Fractions :
        InitCall("single_iter_f", d, NoDist, <<x>>)

NextIter == call_single_iter_f

SpecIter == InitIter /\ [][NextIter]_vars

Init == InitSingle \/ InitDouble \/ InitDgsingle \/ InitDgidouble \/ InitIter

Next ==
    \/ kfsingle_enter
    \/ kfsingle_bisect
    \/ kfsingle_newton_first
    \/ kfsingle_newton
    \/ kfsingle_done
    \/ kfidouble_enter
    \/ kfidouble_check
    \/ kfidouble_bisect
    \/ kfidouble_newton_first
    \/ kfidouble_newton
    \/ kfidouble_done
    \/ call_dgsingle
    \/ call_dgidouble
    \/ call_single_iter_f

Spec == Init /\ [][Next]_vars

-----------------------------------------------------------------------------
(* Exact values, for stating the properties.                               *)

\* |a - b| <= tol
QClose(a, b, tol) == QLe(QAbs(QSub(a, b)), tol)

\* the exact 1 + r * x for a float r and a rational x
QDenom(r, x) == QAdd(One, QMul(QOf(r), x))

RECURSIVE QSumOf(_, _)
\* the exact sum of pv[k..]
QSumOf(pv, k) ==
    IF k > Len(pv) THEN Zero ELSE QAdd(QOf(pv[k]), QSumOf(pv, k + 1))

\* one term of s1 = sum r / (1 + r x), of dg = sum p r / (1 + r x) or of
\* dgprime = - sum p r^2 / (1 + r x)^2, given d = 1 + r x
QTerm(kind, p, r, d) ==
    CASE kind = "s1" -> QDiv(r, d)
      [] kind = "dg" -> QDiv(QMul(p, r), d)
      [] kind = "dgprime" -> QNeg(QDiv(QMul(p, QMul(r, r)), QMul(d, d)))

RECURSIVE QSumTerms(_, _, _, _, _)
QSumTerms(kind, rv, pv, x, k) ==
    IF k > Len(rv) THEN Zero
    ELSE QAdd(QTerm(kind, QOf(pv[k]), QOf(rv[k]), QDenom(rv[k], x)),
              QSumTerms(kind, rv, pv, x, k + 1))

\* no denominator 1 + rv[k] * x is zero
Defined(rv, x) == \A k \in 1..Len(rv) : QDenom(rv[k], x).s # 0

\* every denominator 1 + rv[k] * x is positive
InsidePoles(rv, x) == \A k \in 1..Len(rv) : QDenom(rv[k], x).s = 1

RECURSIVE QProdOthers(_, _, _, _)
\* the product of 1 + rv[j] * x over j # k, j >= from
QProdOthers(rv, x, k, from) ==
    IF from > Len(rv) THEN One
    ELSE IF from = k THEN QProdOthers(rv, x, k, from + 1)
    ELSE QMul(QDenom(rv[from], x), QProdOthers(rv, x, k, from + 1))

RECURSIVE QCleared(_, _, _, _)
\* dgsingle(rv, pv, x) times the product of all 1 + rv[j] * x: it has the
\* sign of dgsingle between the poles and is defined at the poles too
QCleared(rv, pv, x, k) ==
    IF k > Len(rv) THEN Zero
    ELSE QAdd(QMul(QMul(QOf(pv[k]), QOf(rv[k])), QProdOthers(rv, x, k, 1)),
              QCleared(rv, pv, x, k + 1))

AllNonPos(rv) == \A k \in 1..Len(rv) : rv[k].s <= 0
AllNonNeg(rv) == \A k \in 1..Len(rv) : rv[k].s >= 0

IsLimit(v) == v = FInt(Sentinel) \/ v = FInt(-Sentinel)

-----------------------------------------------------------------------------
(* C1: the sentinels of kfsingle.                                          *)

\* C1, as the code has it: kfsingle of a non-empty return vector never
\* enters the bisection when the returns are all <= 0 or all >= 0; it
\* returns exactly -1000000.0 when every return is <= 0, the all-zero vector
\* included, and exactly +1000000.0 when every return is >= 0 and at least
\* one is > 0.
C1_Sentinels ==
    op = "kfsingle" =>
        /\ (AllNonPos(rv1) \/ AllNonNeg(rv1)) => pc \in {"kfsingle", "done"}
        /\ (pc = "done" /\ AllNonPos(rv1)) => ret = <<FInt(-Sentinel)>>
        /\ (pc = "done" /\ AllNonNeg(rv1) /\ ~ AllNonPos(rv1))
              => ret = <<FInt(Sentinel)>>

\* kfsingle([0, 0], pv) has returned -1000000.0
C1_AllZeroShort ==
    /\ op = "kfsingle"
    /\ pc = "done"
    /\ rv1 = <<F0, F0>>
    /\ ret = <<FInt(-Sentinel)>>

\* C1 as stated: -1000000.0 whenever all returns are <= 0 and +1000000.0
\* whenever all returns are >= 0, the all-zero vector meeting both.
C1_BothSentinels ==
    (op = "kfsingle" /\ pc = "done") =>
        /\ AllNonPos(rv1) => ret = <<FInt(-Sentinel)>>
        /\ AllNonNeg(rv1) => ret = <<FInt(Sentinel)>>

-----------------------------------------------------------------------------
(* C2: the shortcut of kfidouble.                                          *)

\* C2: with fs1 and fs2 the values of the two kfsingle calls, kfidouble
\* returns [fs1, fs2] when both are +-1000000.0, [fs1, 0] when only fs1 is
\* and [0, fs2] when only fs2 is, each time without one iteration of the
\* 2-D bisection and without one evaluation of idouble_iter.f; the
\* bisection and the Newton phase are entered only when neither is, and then
\* the result is the last Newton iterate v1.
C2_Shortcut ==
    op = "kfidouble" =>
        /\ pc \in {"kfidouble_bisect", "kfidouble_newton"}
              => ~ IsLimit(k2.fs1) /\ ~ IsLimit(k2.fs2)
        /\ pc = "done" =>
              IF IsLimit(k2.fs1) /\ IsLimit(k2.fs2)
              THEN ret = <<k2.fs1, k2.fs2>> /\ nbis = 0 /\ nnewt = 0
              ELSE IF IsLimit(k2.fs1)
              THEN ret = <<k2.fs1, F0>> /\ nbis = 0 /\ nnewt = 0
              ELSE IF IsLimit(k2.fs2)
              THEN ret = <<F0, k2.fs2>> /\ nbis = 0 /\ nnewt = 0
              ELSE ret = k2.v1 /\ nnewt >= 1

\* kfidouble has returned [-1000000.0, 0]: bet 1 never wins, bet 2 is mixed
C2_OnlyFirst ==
    /\ op = "kfidouble"
    /\ pc = "done"
    /\ k2.fs1 = FInt(-Sentinel)
    /\ ~ IsLimit(k2.fs2)
    /\ ret = <<FInt(-Sentinel), F0>>

-----------------------------------------------------------------------------
(* C3: the classic Kelly fraction.                                         *)

\* a call kfsingle([1, -1], [p, 1 - p]) with 0 < p < 1
C3_Coin ==
    /\ op = "kfsingle"
    /\ rv1 = <<F1, FInt(-1)>>
    /\ pv1[1].s = 1
    /\ pv1[2].s = 1

C3_Fraction(p) == QSub(QAdd(p, p), One)

C3_Within ==
    (C3_Coin /\ pc = "done") =>
        /\ QClose(QOf(ret[1]), C3_Fraction(QOf(pv1[1])), QPow10Inv(3))
        /\ pv1[1] = FFrac(1, 2) => ret[1] = F0
        /\ pv1[1] = FFrac(3, 5) => QClose(QOf(ret[1]), QFrac(1, 5), QPow10Inv(3))

C3_Returned == pc = "done"

\* C3: kfsingle([1, -1], [p, 1 - p]) with 0 < p < 1 returns, and what it
\* returns is within 1e-3 of 2p - 1: it is 0.0 for p = 0.5 and within 1e-3
\* of 0.2 for p = 0.6.
C3_Kelly == [] C3_Within /\ (C3_Coin ~> C3_Returned)

\* the 60/40 coin has returned a fraction within 1e-3 of 0.2
C3_BiasedCoin ==
    /\ C3_Coin
    /\ pc = "done"
    /\ pv1[1] = FFrac(3, 5)
    /\ QClose(QOf(ret[1]), QFrac(1, 5), QPow10Inv(3))

-----------------------------------------------------------------------------
(* C4: the round trip through dgidouble.                                   *)

C4_Zero(fv) ==
    /\ ~ IsErr(fv[1])
    /\ ~ IsErr(fv[2])
    /\ QLe(QAbs(QOf(fv[1])), QPow10Inv(BisectTolExp))
    /\ QLe(QAbs(QOf(fv[2])), QPow10Inv(BisectTolExp))

\* C4: whenever kfidouble returns a pair that does not come from the
\* sentinel shortcut, dgidouble at that pair is defined and both its
\* components are within 1e-8 of 0.
C4_RoundTrip ==
    (op = "kfidouble" /\ pc = "done" /\ ~ IsLimit(k2.fs1) /\ ~ IsLimit(k2.fs2))
        => C4_Zero(dgidouble(rv1, rv2, pv1, pv2, ret[1], ret[2]))

-----------------------------------------------------------------------------
(* C5: dgidouble at (0, 0).                                                *)

C5_Called == op = "dgidouble" /\ pc = "done" /\ fr = <<F0, F0>>

C5_Normalised(pv) == QClose(QSumOf(pv, 1), One, QPow10Inv(15))

\* C5, as the code has it: dgidouble(rv1, rv2, pv1, pv2, 0, 0) is, up to
\* rounding, the pair (expectation(pv1, rv1) * sum(pv2),
\* expectation(pv2, rv2) * sum(pv1)); it is the pair of the expectations
\* when both probability vectors sum to 1.
C5_Scaled ==
    C5_Called =>
        /\ QClose(QOf(ret[1]),
                  QMul(QOf(expectation(pv1, rv1)), QSumOf(pv2, 1)), QPow10Inv(12))
        /\ QClose(QOf(ret[2]),
                  QMul(QOf(expectation(pv2, rv2)), QSumOf(pv1, 1)), QPow10Inv(12))
        /\ (C5_Normalised(pv1) /\ C5_Normalised(pv2)) =>
              /\ QClose(QOf(ret[1]), QOf(expectation(pv1, rv1)), QPow10Inv(12))
              /\ QClose(QOf(ret[2]), QOf(expectation(pv2, rv2)), QPow10Inv(12))

\* dgidouble at (0, 0) has returned for two vectors that sum to 1, with a
\* non-zero expectation of bet 1
C5_BothNormalised ==
    /\ C5_Called
    /\ C5_Normalised(pv1)
    /\ C5_Normalised(pv2)
    /\ ret[1].s # 0
    /\ QClose(QOf(ret[1]), QOf(expectation(pv1, rv1)), QPow10Inv(12))

\* C5 as stated: for any non-negative probability vectors the result is the
\* pair of the expectations.
C5_Expectations ==
    C5_Called =>
        /\ QClose(QOf(ret[1]), QOf(expectation(pv1, rv1)), QPow10Inv(12))
        /\ QClose(QOf(ret[2]), QOf(expectation(pv2, rv2)), QPow10Inv(12))

-----------------------------------------------------------------------------
(* C6: dgsingle as a function of the fraction.                             *)

\* dgsingle has been evaluated at f = fr[1] and at g = fr[2] > f
C6_Called == op = "dgsingle" /\ pc = "done"

\* no pole -1 / rv[k] lies between f and g
C6_NoPoleBetween ==
    \A k \in 1..Len(rv1) :
        QDenom(rv1[k], QOf(fr[1])).s = QDenom(rv1[k], QOf(fr[2])).s

\* C6, as the code has it: for mixed-sign returns, non-negative
\* probabilities and f < g with no pole -1 / rv[k] at or between f and g (so
\* in particular for f and g inside (-1 / max(rv), -1 / min(rv))),
\* dgsingle(rv, pv, g) <= dgsingle(rv, pv, f).
C6_Monotone ==
    (C6_Called /\ C6_NoPoleBetween) => FLe(ret[2], ret[1])

\* dgsingle has gone down strictly between two fractions inside the poles
C6_Decreased ==
    /\ C6_Called
    /\ InsidePoles(rv1, QOf(fr[1]))
    /\ InsidePoles(rv1, QOf(fr[2]))
    /\ FLt(ret[2], ret[1])

\* C6 as stated: for every f < g at which dgsingle is defined,
\* dgsingle(rv, pv, g) <= dgsingle(rv, pv, f).
C6_Everywhere == C6_Called => FLe(ret[2], ret[1])

-----------------------------------------------------------------------------
(* C7: the step of single_iter.f.                                          *)

C7_Called ==
    /\ op = "single_iter_f"
    /\ pc = "done"
    /\ Defined(rv1, QOf(fr[1]))

\* out is within 1e-9 of x - g / den, for den # 0
C7_Step(out, x, g, den) ==
    den.s # 0 => QClose(out, QSub(x, QDiv(g, den)), QPow10Inv(9))

\* the denominator dgsingle'(x) + s1(x) * dgsingle(x)
C7_ScaledDen(g, gp, s1) == QAdd(gp, QMul(s1, g))

\* C7, as the code has it: where no 1 + rv[k] * x is zero, single_iter.f(x)
\* is, up to rounding, x - dgsingle(x) / (dgsingle'(x) + s1(x) * dgsingle(x))
\* with dgsingle'(x) = - sum pv[k] rv[k]^2 / (1 + rv[k] x)^2 and
\* s1(x) = sum rv[k] / (1 + rv[k] x): the Newton step of dgsingle times the
\* product of the 1 + rv[k] x, which has the zeros of dgsingle.
C7_Scaled ==
    C7_Called =>
        C7_Step(QOf(ret[1]), QOf(fr[1]),
                QSumTerms("dg", rv1, pv1, QOf(fr[1]), 1),
                C7_ScaledDen(QSumTerms("dg", rv1, pv1, QOf(fr[1]), 1),
                             QSumTerms("dgprime", rv1, pv1, QOf(fr[1]), 1),
                             QSumTerms("s1", rv1, pv1, QOf(fr[1]), 1)))

\* single_iter.f has returned a value more than 1e-3 away from x
C7_Moved ==
    /\ C7_Called
    /\ ~ QClose(QOf(ret[1]), QOf(fr[1]), QPow10Inv(3))

\* C7 as stated: where no 1 + rv[k] * x is zero, single_iter.f(x) is
\* x - dgsingle(x) / dgsingle'(x).
C7_Newton ==
    C7_Called =>
        C7_Step(QOf(ret[1]), QOf(fr[1]),
                QSumTerms("dg", rv1, pv1, QOf(fr[1]), 1),
                QSumTerms("dgprime", rv1, pv1, QOf(fr[1]), 1))

-----------------------------------------------------------------------------
(* C8: the bracket of kfsingle's bisection.                                *)

C8_Bisecting == op = "kfsingle" /\ pc = "kfsingle_bisect"

\* the root of dgsingle for two outcomes:
\* - (p1 r1 + p2 r2) / (r1 r2 (p1 + p2))
C8_Root2(r1, r2, p1, p2) ==
    QNeg(QDiv(QAdd(QMul(p1, r1), QMul(p2, r2)),
              QMul(QMul(r1, r2), QAdd(p1, p2))))

C8_Between(lo, f, hi) == QLe(lo, f) /\ QLe(f, hi)

\* the largest and the smallest return have positive probability
C8_Weighted ==
    \A k \in 1..Len(rv1) :
        (rv1[k] = SeqMax(rv1) \/ rv1[k] = SeqMin(rv1)) => pv1[k].s = 1

\* dgsingle has a root strictly between the poles: it is positive next to
\* -1 / max(rv) and negative next to -1 / min(rv)
C8_HasRoot ==
    /\ QCleared(rv1, pv1, QDiv(QInt(-1), QOf(SeqMax(rv1))), 1).s = 1
    /\ QCleared(rv1, pv1, QDiv(QInt(-1), QOf(SeqMin(rv1))), 1).s = -1

\* xmin <= f* <= xmax.  dgsingle falls strictly between the poles, so that
\* is: dgsingle is >= 0 at xmin and <= 0 at xmax, the sign at a pole being
\* the sign dgsingle has next to it (QCleared); for two outcomes f* is
\* written out as well
C8_Enclosed ==
    /\ FLe(k1.xmin, k1.xmax)
    /\ QCleared(rv1, pv1, QOf(k1.xmin), 1).s >= 0
    /\ QCleared(rv1, pv1, QOf(k1.xmax), 1).s <= 0
    /\ Len(rv1) = 2 =>
          C8_Between(QOf(k1.xmin),
                     C8_Root2(QOf(rv1[1]), QOf(rv1[2]), QOf(pv1[1]), QOf(pv1[2])),
                     QOf(k1.xmax))

\* C8, as the code has it: for mixed-sign returns whose largest and whose
\* smallest return have positive probability, dgsingle has a root f*
\* strictly between the poles -1 / max(rv) and -1 / min(rv), and at every
\* test of the loop condition of kfsingle's bisection, the first included,
\* xmin <= f* <= xmax.
C8_Encloses ==
    (C8_Bisecting /\ C8_Weighted) => (C8_HasRoot /\ C8_Enclosed)

\* both ends of the bracket have moved and the loop goes on
C8_BothMoved ==
    /\ C8_Bisecting
    /\ C8_Weighted
    /\ k1.xmin.s = 1
    /\ k1.xmax # FDiv(FInt(-1), SeqMin(rv1))
    /\ FGt(FSub(k1.xmax, k1.xmin), BisectTol)

\* C8 as stated: for any non-negative probabilities and mixed-sign returns
\* dgsingle has a root f* between the poles and xmin <= f* <= xmax
\* throughout the bisection.
C8_AnyWeights == C8_Bisecting => (C8_HasRoot /\ C8_Enclosed)

-----------------------------------------------------------------------------
(* C9: where dgsingle is evaluated.                                        *)

\* the loop of kfsingle's bisection is about to evaluate dgsingle at x
C9_Evaluating ==
    /\ pc = "kfsingle_bisect"
    /\ FGt(FSub(k1.xmax, k1.xmin), BisectTol)

\* C9: every x at which kfsingle's bisection evaluates dgsingle has
\* xmin < x < xmax and -1 / max(rv) < x < -1 / min(rv); every 1 + rv[k] * x
\* is positive, as a real number and as the float dgsingle divides by, and
\* dgsingle(rv, pv, x) does not raise ZeroDivisionError.
C9_Inside ==
    C9_Evaluating =>
        /\ FLt(k1.xmin, k1.x)
        /\ FLt(k1.x, k1.xmax)
        /\ QLt(QDiv(QInt(-1), QOf(SeqMax(k1.rv))), QOf(k1.x))
        /\ QLt(QOf(k1.x), QDiv(QInt(-1), QOf(SeqMin(k1.rv))))
        /\ InsidePoles(k1.rv, QOf(k1.x))
        /\ \A k \in 1..Len(k1.rv) : FAdd(F1, FMul(k1.rv[k], k1.x)).s = 1
        /\ ~ IsErr(dgsingle(k1.rv, k1.pv, k1.x))

\* dgsingle is about to be evaluated in a bracket that has shrunk from both
\* ends
C9_Shrunk ==
    /\ C9_Evaluating
    /\ k1.xmin # FDiv(FInt(-1), SeqMax(k1.rv))
    /\ k1.xmax.s = -1
    /\ Len(k1.rv) = 3

-----------------------------------------------------------------------------
(* C10: the bisection of kfidouble.                                        *)

C10_Width(lo, hi) == QSub(QOf(hi), QOf(lo))

C10_Wide(lo, hi) == QGt(C10_Width(lo, hi), QOf(BisectTol))

\* [lo, hi] with midpoint mid has become [lo2, hi2]: one end is mid, the
\* other is kept, and the width is halved (up to the rounding of mid)
C10_Halved(lo, mid, hi, lo2, hi2) ==
    /\ (lo2 = mid /\ hi2 = hi) \/ (lo2 = lo /\ hi2 = mid)
    /\ QClose(QAdd(C10_Width(lo2, hi2), C10_Width(lo2, hi2)),
              C10_Width(lo, hi), QPow10Inv(15))

\* an iteration runs only from a box wide in both directions, and halves
\* both brackets; the loop is left only from a box narrow in one direction
C10_Step ==
    /\ (pc = "kfidouble_bisect" /\ pc' = "kfidouble_bisect") =>
          /\ C10_Wide(k2.xmin, k2.xmax)
          /\ C10_Wide(k2.ymin, k2.ymax)
          /\ C10_Halved(k2.xmin, k2.x, k2.xmax, k2'.xmin, k2'.xmax)
          /\ C10_Halved(k2.ymin, k2.y, k2.ymax, k2'.ymin, k2'.ymax)
          /\ nbis' = nbis + 1
    /\ (pc = "kfidouble_bisect" /\ pc' = "kfidouble_newton") =>
          ~ (C10_Wide(k2.xmin, k2.xmax) /\ C10_Wide(k2.ymin, k2.ymax))

\* the widths are in the ratio |fs1| : |fs2|
C10_Ratio ==
    pc = "kfidouble_bisect" =>
        QClose(QMul(C10_Width(k2.xmin, k2.xmax), QAbs(QOf(k2.fs2))),
               QMul(C10_Width(k2.ymin, k2.ymax), QAbs(QOf(k2.fs1))),
               QPow10Inv(15))

C10_InLoop == pc = "kfidouble_bisect"

C10_Left == pc # "kfidouble_bisect"

\* C10: every iteration of kfidouble's bisection replaces one end of each
\* bracket by its midpoint and so halves both widths; an iteration runs only
\* while both widths exceed 1e-8 and the loop is left as soon as one does
\* not; the widths keep the ratio |fs1| : |fs2|; the loop is always left.
C10_Bisection ==
    /\ [][C10_Step]_vars
    /\ [] C10_Ratio
    /\ C10_InLoop ~> C10_Left

\* the Newton phase has been entered from a box that is narrow for bet 2
\* and still wider than 1e-8 for bet 1
C10_OtherStillWide ==
    /\ pc = "kfidouble_newton"
    /\ nbis > 0
    /\ ~ C10_Wide(k2.ymin, k2.ymax)
    /\ C10_Wide(k2.xmin, k2.xmax)

-----------------------------------------------------------------------------
(* C11: where dgidouble is evaluated.                                      *)

\* the loop of kfidouble's bisection is about to evaluate dgidouble at
\* (x, y)
C11_Evaluating ==
    /\ pc = "kfidouble_bisect"
    /\ C10_Wide(k2.xmin, k2.xmax)
    /\ C10_Wide(k2.ymin, k2.ymax)

\* the exact 1 + r * x + s * y
C11_Denom(r, x, s, y) ==
    QAdd(QAdd(One, QMul(QOf(r), QOf(x))), QMul(QOf(s), QOf(y)))

\* C11: at every point (x, y) at which kfidouble's bisection evaluates
\* dgidouble, 1 + rv1[i] * x + rv2[j] * y > 0 for all i and j, as a real
\* number and as the float dgidouble divides by, and dgidouble does not
\* raise ZeroDivisionError.
C11_Positive ==
    C11_Evaluating =>
        /\ \A i \in 1..Len(rv1), j \in 1..Len(rv2) :
              /\ C11_Denom(rv1[i], k2.x, rv2[j], k2.y).s = 1
              /\ FAdd(FAdd(F1, FMul(rv1[i], k2.x)), FMul(rv2[j], k2.y)).s = 1
        /\ ~ IsErr(dgidouble(rv1, rv2, pv1, pv2, k2.x, k2.y)[1])

=============================================================================
